---- MODULE Spec2Model ----
(***************************************************************************)
(* Model of the Hanabi simulator (src/hanabi.py, src/events.py): the       *)
(* single-game state machine of Game.game_loop with its deck, hands,       *)
(* piles, hint and error counters and the last-turn countdown.             *)
(*                                                                         *)
(* The two random inputs of a game are bounded: random.shuffle yields one  *)
(* of MaxShuffle+1 permutations of the constructed deck, and the values    *)
(* returned by successive random.choice(actions) calls form a stream that  *)
(* repeats with period ChoicePeriod (every such stream is explored).       *)
(***************************************************************************)
EXTENDS Integers, Sequences, FiniteSets, TLC

(* ---- bounds of the model ---- *)
MaxShuffle == 3
ChoicePeriod == 5
MaxGames == 2

(* ---- program constants ---- *)
colors == <<"red", "green", "yellow", "white", "cyan">>
numbers == <<1, 2, 3, 4, 5>>
quantities == <<3, 2, 2, 2, 1>>
actions == <<"play", "hint", "discard">>
n_players == 4
StartHints == 7
StartErrors == 3
MaxTries == 20
MaxTurns == 35
FullHints == 7

ColorSet == {colors[i] : i \in 1..Len(colors)}
ActionSet == {actions[i] : i \in 1..Len(actions)}

(* ---- cards and card stacks ---- *)
Card(number, color) == [number |-> number, color |-> color]

\* Python's None as returned by CardStack.top on an empty stack
None == [number |-> -1, color |-> "None"]

\* CardStack.top
top(cards) == IF Len(cards) > 0 THEN cards[Len(cards)] ELSE None

\* list.pop(idx) with a 1-based idx: the list without its idx-th element
RemoveAt(cards, idx) ==
    [i \in 1..(Len(cards) - 1) |-> IF i < idx THEN cards[i] ELSE cards[i + 1]]

\* CardStack.pop: idx = 0 stands for the default (last card).  An empty
\* stack raises CardError, an index outside the list raises IndexError.
CardStack_pop(cards, idx) ==
    IF Len(cards) = 0
    THEN [raised |-> "CardError", card |-> None, cards |-> cards]
    ELSE IF idx = 0
    THEN [raised |-> "none", card |-> cards[Len(cards)],
          cards |-> RemoveAt(cards, Len(cards))]
    ELSE IF idx \notin 1..Len(cards)
    THEN [raised |-> "IndexError", card |-> None, cards |-> cards]
    ELSE [raised |-> "none", card |-> cards[idx], cards |-> RemoveAt(cards, idx)]

(* ---- Deck ---- *)
Copies(card, q) == [i \in 1..q |-> card]

RECURSIVE ColorCards(_, _)
ColorCards(c, k) ==
    IF k > Len(numbers) \/ k > Len(quantities) THEN <<>>
    ELSE Copies(Card(numbers[k], c), quantities[k]) \o ColorCards(c, k + 1)

RECURSIVE DeckFrom(_)
DeckFrom(k) ==
    IF k > Len(colors) THEN <<>>
    ELSE ColorCards(colors[k], 1) \o DeckFrom(k + 1)

\* Deck.__init__: the unshuffled deck
Deck == DeckFrom(1)

\* random.shuffle, bounded: seed s permutes the deck by reading it with a
\* stride coprime to its length, so every outcome is a permutation.
ShuffleStrides == <<3, 27, 1, 47, 19, 37, 13, 49>>
shuffle(cards, seed) ==
    LET stride == ShuffleStrides[(seed % Len(ShuffleStrides)) + 1]
    IN  [i \in 1..Len(cards) |-> cards[(((i - 1) * stride) % Len(cards)) + 1]]

\* Deck.pop: CardError of the stack becomes EmptyDeck
Deck_pop(cards) ==
    LET r == CardStack_pop(cards, 0)
    IN  IF r.raised = "CardError"
        THEN [raised |-> "EmptyDeck", card |-> None, cards |-> cards]
        ELSE r

(* ---- Pile and Piles ---- *)
\* Pile.append: a card of another color is refused
Pile_append(color, cards, card) ==
    IF card.color # color
    THEN [raised |-> "InvalidActionError", cards |-> cards]
    ELSE [raised |-> "none", cards |-> Append(cards, card)]

\* Piles.__init__: each pile starts with a bogus card of value 0
Piles_init == [c \in ColorSet |-> Pile_append(c, <<>>, Card(0, c)).cards]

\* variant: any higher card is accepted
is_playable_higher(ps, card) ==
    LET card_on_top == top(ps[card.color])
    IN  card_on_top = None \/ card.number > card_on_top.number

\* variant: a pile that holds only its bogus card accepts any card
is_playable_sentinel(ps, card) ==
    LET card_on_top == top(ps[card.color])
    IN  \/ card_on_top = None
        \/ card_on_top.number = 0
        \/ card.number = card_on_top.number + 1

\* Piles.is_playable
is_playable(ps, card) ==
    LET card_on_top == top(ps[card.color])
    IN  card_on_top = None \/ card.number = card_on_top.number + 1

\* variant: the completion of a pile is raised before the card is appended
Piles_append_early5(ps, card) ==
    LET can_play == is_playable(ps, card)
        r == Pile_append(card.color, ps[card.color], card)
    IN  IF can_play
        THEN IF card.number = 5
             THEN [raised |-> "CompletedPile", piles |-> ps]
             ELSE [raised |-> r.raised,
                   piles |-> [ps EXCEPT ![card.color] = r.cards]]
        ELSE [raised |-> "WrongPlayError", piles |-> ps]

\* variant: a wrong card is put on the pile before the error is raised
Piles_append_always(ps, card) ==
    LET can_play == is_playable(ps, card)
        r == Pile_append(card.color, ps[card.color], card)
    IN  IF can_play
        THEN IF r.raised # "none"
             THEN [raised |-> r.raised, piles |-> ps]
             ELSE [raised |-> IF card.number = 5 THEN "CompletedPile" ELSE "none",
                   piles |-> [ps EXCEPT ![card.color] = r.cards]]
        ELSE [raised |-> "WrongPlayError",
              piles |-> [ps EXCEPT ![card.color] = r.cards]]

\* Piles.append
Piles_append(ps, card) ==
    LET can_play == is_playable(ps, card)
        r == Pile_append(card.color, ps[card.color], card)
    IN  IF can_play
        THEN IF r.raised # "none"
             THEN [raised |-> r.raised, piles |-> ps]
             ELSE [raised |-> IF card.number = 5 THEN "CompletedPile" ELSE "none",
                   piles |-> [ps EXCEPT ![card.color] = r.cards]]
        ELSE [raised |-> "WrongPlayError", piles |-> ps]

RECURSIVE SumTops(_, _)
SumTops(ps, k) ==
    IF k > Len(colors) THEN 0
    ELSE (IF top(ps[colors[k]]) # None THEN top(ps[colors[k]]).number ELSE 0)
         + SumTops(ps, k + 1)

\* variant: the score counts the cards of the piles, the bogus ones too
score_sizes(ps) ==
    Len(ps[colors[1]]) + Len(ps[colors[2]]) + Len(ps[colors[3]])
        + Len(ps[colors[4]]) + Len(ps[colors[5]])

\* Piles.score
score(ps) == SumTops(ps, 1)

(* ---- Player ---- *)
\* variant: the card is returned but stays in the hand
remove_card_keeps(hand, idx) ==
    LET r == CardStack_pop(hand, idx)
    IN  IF r.raised = "IndexError"
        THEN [raised |-> "InvalidActionError", card |-> None, cards |-> hand]
        ELSE [raised |-> r.raised, card |-> r.card, cards |-> hand]

\* Player.remove_card: idx = 0 stands for idx=None
remove_card(hand, idx) ==
    LET r == CardStack_pop(hand, idx)
    IN  IF r.raised = "IndexError"
        THEN [raised |-> "InvalidActionError", card |-> None, cards |-> hand]
        ELSE r

(* ---- Game: the three actions as functions of the state they touch ---- *)
\* variant: the last playable card in hand order is taken
FirstPlayable_last(hand, ps) ==
    IF \E i \in 1..Len(hand) : is_playable(ps, hand[i])
    THEN CHOOSE i \in 1..Len(hand) :
            /\ is_playable(ps, hand[i])
            /\ \A j \in (i + 1)..Len(hand) : ~is_playable(ps, hand[j])
    ELSE 0

\* index of the first playable card in hand order, 0 when there is none
FirstPlayable(hand, ps) ==
    IF \E i \in 1..Len(hand) : is_playable(ps, hand[i])
    THEN CHOOSE i \in 1..Len(hand) :
            /\ is_playable(ps, hand[i])
            /\ \A j \in 1..(i - 1) : ~is_playable(ps, hand[j])
    ELSE 0

\* Game.play
play(hand, ps, strategy) ==
    IF Len(hand) = 0
    THEN [raised |-> "InvalidActionError", hand |-> hand, piles |-> ps, card |-> None]
    ELSE LET idx == IF strategy = "best" THEN FirstPlayable(hand, ps) ELSE 0
             rm == remove_card(hand, idx)
             ap == Piles_append(ps, rm.card)
         IN  [raised |-> ap.raised, hand |-> rm.cards, piles |-> ap.piles,
              card |-> rm.card]

\* variant: the card leaves the hand before the hints are looked at
discard_first(hand, h) ==
    LET rm == remove_card(hand, 0)
    IN  IF rm.raised = "CardError"
        THEN [raised |-> "CardError", hand |-> hand, hints |-> h]
        ELSE IF h >= FullHints
        THEN [raised |-> "InvalidActionError", hand |-> rm.cards, hints |-> h]
        ELSE [raised |-> "none", hand |-> rm.cards, hints |-> h + 1]

\* Game.discard
discard(hand, h) ==
    IF h >= FullHints
    THEN [raised |-> "InvalidActionError", hand |-> hand, hints |-> h]
    ELSE LET rm == remove_card(hand, 0)
         IN  IF rm.raised = "CardError"
             THEN [raised |-> "CardError", hand |-> hand, hints |-> h]
             ELSE [raised |-> "none", hand |-> rm.cards, hints |-> h + 1]

\* variant: a hint costs no token
hint_free(h) ==
    IF h > 0 THEN [raised |-> "none", hints |-> h]
    ELSE [raised |-> "InvalidActionError", hints |-> h]

\* Game.hint
hint(h) ==
    IF h > 0 THEN [raised |-> "none", hints |-> h - 1]
    ELSE [raised |-> "InvalidActionError", hints |-> h]

(* ---- Game.game_loop ---- *)
cards_to_deal(n) == IF n \in {2, 3} THEN 5 ELSE IF n \in {4, 5} THEN 4 ELSE 0

\* the hand dealt to player p: cards_to_deal pops from the end of the deck
DealtHand(cards, p, k) ==
    [i \in 1..k |-> cards[Len(cards) - (p - 1) * k - (i - 1)]]

\* variant: the countdown starts one higher
InitialTurnsLeft_plus(n) == n + 1

\* the countdown of the last turn starts at the number of players
InitialTurnsLeft(n) == n

\* variant: a wrong play costs no error
ErrorsAfterWrongPlay_none(e) == e

\* variant: a wrong play costs two errors
ErrorsAfterWrongPlay_two(e) == e - 2

\* a wrong play costs one error
ErrorsAfterWrongPlay(e) == e - 1

\* variant: the game is lost only below 0
NoErrorsLeft_below(e) == e < 0

\* the game is lost when the error counter is at 0
NoErrorsLeft(e) == e = 0

\* variant: the countdown runs from the first turn on
TurnsLeftAfter_always(last, left) == left - 1

\* the countdown loses one per player-turn once the last turn has begun
TurnsLeftAfter(last, left) == IF last THEN left - 1 ELSE left

\* the game is over when the countdown is at 0
CountdownOver(left) == left = 0

\* variant: the piles of the previous game are kept
init_game_keeps(self) ==
    [hints |-> StartHints, errors |-> StartErrors, n_players |-> n_players,
     deck |-> Deck, piles |-> self.piles, players |-> <<>>]

\* Game.init_game: the attributes of the game after the reset, self being
\* the attributes before it
init_game(self) ==
    [hints |-> StartHints, errors |-> StartErrors, n_players |-> n_players,
     deck |-> Deck, piles |-> Piles_init, players |-> <<>>]

NoResult == [finished |-> FALSE, score |-> 0, turns |-> 0]

VARIABLES
    play_strategy,  \* Game.play_strategy
    stream, rpos,   \* the values random.choice will return, and the next one
    pc,             \* "idle" | "try" | "draw" | "returned" | "raised"
    hints, errors,  \* Game.hints, Game.errors
    deck,           \* Game.deck.cards
    piles,          \* Game.piles.piles
    hands,          \* hands[p] = Game.players[p-1].hand.cards
    turn, is_last_turn, turns_left,
    p,              \* the player of the for loop
    successful, tries, action,
    raised,         \* the exception of the last attempt, or the escaped one
    result,         \* the record game_loop returns
    removed,        \* cards dropped by discards and wrong plays (history)
    turns_after,    \* player-turns completed after the one whose draw first
                    \* failed (history)
    exhausted_by,   \* the player whose draw first failed, 0 before (history)
    games           \* calls of game_loop so far (history)

vars == <<play_strategy, stream, rpos, pc, hints, errors, deck, piles, hands,
          turn, is_last_turn, turns_left, p, successful, tries, action,
          raised, result, removed, turns_after, exhausted_by, games>>

Players == 1..n_players

\* Game.__init__: only the strategy is set; the random source is somewhere
\* in its stream.
Init ==
    /\ play_strategy \in {"best", "random"}
    /\ stream \in [0..(ChoicePeriod - 1) -> ActionSet]
    /\ rpos = 0
    /\ pc = "idle"
    /\ hints = 0 /\ errors = 0
    /\ deck = <<>>
    /\ piles = [c \in ColorSet |-> <<>>]
    /\ hands = [q \in Players |-> <<>>]
    /\ turn = 0 /\ is_last_turn = FALSE /\ turns_left = 0
    /\ p = 1 /\ successful = FALSE /\ tries = 0 /\ action = "none"
    /\ raised = "none"
    /\ result = NoResult
    /\ removed = 0 /\ turns_after = 0 /\ exhausted_by = 0
    /\ games = 0

\* game_loop up to the first turn: init_game, shuffle, deal
Setup ==
    LET self == init_game([hints |-> hints, errors |-> errors, piles |-> piles])
    IN  /\ \E seed \in 0..MaxShuffle :
             LET shuffled == shuffle(self.deck, seed)
                 k == cards_to_deal(self.n_players)
             IN  /\ hands' = [q \in Players |-> DealtHand(shuffled, q, k)]
                 /\ deck' = SubSeq(shuffled, 1,
                                   Len(shuffled) - self.n_players * k)
        /\ hints' = self.hints
        /\ errors' = self.errors
        /\ piles' = self.piles
        /\ turn' = 1
        /\ is_last_turn' = FALSE
        /\ turns_left' = InitialTurnsLeft(self.n_players)
        /\ p' = 1 /\ successful' = FALSE /\ tries' = 0
        /\ raised' = "none"
        /\ result' = NoResult
        /\ removed' = 0 /\ turns_after' = 0 /\ exhausted_by' = 0
        /\ games' = games + 1
        /\ pc' = "try"
        /\ UNCHANGED <<play_strategy, stream, rpos, action>>

\* the first call of game_loop on the Game object
StartGame ==
    /\ pc = "idle"
    /\ Setup

\* a further call of game_loop (multi_run), after the previous one returned
\* or raised
NextGame ==
    /\ pc \in {"returned", "raised"}
    /\ games < MaxGames
    /\ Setup

\* the except clauses of the inner loop, applied to the outcome of an action
\* that left the counters, the hand and the piles at h, hd, ps
Handle(exc, h, hd, ps, rm) ==
    /\ raised' = exc
    /\ hands' = [hands EXCEPT ![p] = hd]
    /\ piles' = ps
    /\ removed' = removed + rm
    /\ CASE exc = "none" ->
              /\ successful' = TRUE /\ pc' = "draw"
              /\ hints' = h
              /\ UNCHANGED <<errors, result>>
         [] exc = "InvalidActionError" ->
              /\ hints' = h
              /\ UNCHANGED <<successful, pc, errors, result>>
         [] exc = "WrongPlayError" ->
              /\ errors' = ErrorsAfterWrongPlay(errors)
              /\ hints' = h
              /\ IF NoErrorsLeft(ErrorsAfterWrongPlay(errors))
                 THEN /\ result' = [finished |-> FALSE, score |-> score(ps),
                                    turns |-> turn]
                      /\ pc' = "returned"
                 ELSE UNCHANGED <<result, pc>>
              /\ UNCHANGED successful
         [] exc = "CompletedPile" ->
              /\ hints' = h + 1
              /\ successful' = TRUE /\ pc' = "draw"
              /\ UNCHANGED <<errors, result>>
         [] OTHER ->
              \* not caught by game_loop: the exception escapes
              /\ hints' = h
              /\ pc' = "raised"
              /\ UNCHANGED <<successful, errors, result>>

\* inner loop: the try after the 20th raises HanabiError
TooManyTries ==
    /\ pc = "try"
    /\ tries + 1 > MaxTries
    /\ tries' = tries + 1
    /\ raised' = "Too many tries!"
    /\ pc' = "raised"
    /\ UNCHANGED <<play_strategy, stream, rpos, hints, errors, deck, piles,
                   hands, turn, is_last_turn, turns_left, p, successful,
                   action, result, removed, turns_after, exhausted_by, games>>

Choose(a) ==
    /\ pc = "try"
    /\ tries + 1 <= MaxTries
    /\ stream[rpos] = a
    /\ tries' = tries + 1
    /\ action' = a
    /\ rpos' = (rpos + 1) % ChoicePeriod
    /\ UNCHANGED <<play_strategy, stream, deck, turn, is_last_turn,
                   turns_left, p, turns_after, exhausted_by, games>>

\* inner loop, action == 'play'
TryPlay ==
    /\ Choose("play")
    /\ LET r == play(hands[p], piles, play_strategy)
       IN  Handle(r.raised, hints, r.hand, r.piles,
                  IF r.raised = "WrongPlayError" THEN 1 ELSE 0)

\* inner loop, action == 'hint'
TryHint ==
    /\ Choose("hint")
    /\ LET r == hint(hints)
       IN  Handle(r.raised, r.hints, hands[p], piles, 0)

\* inner loop, action == 'discard'
TryDiscard ==
    /\ Choose("discard")
    /\ LET r == discard(hands[p], hints)
       IN  Handle(r.raised, r.hints, r.hand, piles,
                  IF r.raised = "none" THEN 1 ELSE 0)

\* after the inner loop: draw, countdown, end of game, next player
EndTurn ==
    /\ pc = "draw"
    /\ LET drawing == action \in {"play", "discard"}
           d == Deck_pop(deck)
           last == is_last_turn \/ (drawing /\ d.raised = "EmptyDeck")
           left == TurnsLeftAfter(last, turns_left)
       IN  /\ IF drawing /\ d.raised = "none"
              THEN /\ deck' = d.cards
                   /\ hands' = [hands EXCEPT ![p] = Append(@, d.card)]
              ELSE UNCHANGED <<deck, hands>>
           /\ is_last_turn' = last
           /\ turns_left' = left
           /\ turns_after' = IF is_last_turn THEN turns_after + 1 ELSE turns_after
           /\ exhausted_by' = IF last /\ ~is_last_turn THEN p ELSE exhausted_by
           /\ IF CountdownOver(left)
              THEN /\ result' = [finished |-> TRUE, score |-> score(piles),
                                 turns |-> turn]
                   /\ pc' = "returned"
                   /\ UNCHANGED <<raised, p, turn, successful, tries>>
              ELSE IF turn > MaxTurns
              THEN /\ raised' = "Too many turns! Loop?"
                   /\ pc' = "raised"
                   /\ UNCHANGED <<result, p, turn, successful, tries>>
              ELSE /\ pc' = "try"
                   /\ successful' = FALSE
                   /\ tries' = 0
                   /\ raised' = "none"
                   /\ IF p < n_players
                      THEN p' = p + 1 /\ turn' = turn
                      ELSE p' = 1 /\ turn' = turn + 1
                   /\ UNCHANGED result
    /\ UNCHANGED <<play_strategy, stream, rpos, hints, errors, piles, action,
                   removed, games>>

Next == StartGame \/ TooManyTries \/ TryPlay \/ TryHint \/ TryDiscard \/ EndTurn

Spec == Init /\ [][Next]_vars

\* one Game object used for several games in a row
NextMulti ==
    StartGame \/ NextGame \/ TooManyTries \/ TryPlay \/ TryHint \/ TryDiscard
        \/ EndTurn

SpecMulti == Init /\ [][NextMulti]_vars

(* ======================= properties ======================= *)
InGame == pc # "idle"

\* cards in the deck, the hands and the piles, the sentinels not counted
RECURSIVE SumLen(_, _)
SumLen(f, S) ==
    IF S = {} THEN 0
    ELSE LET x == CHOOSE y \in S : TRUE IN Len(f[x]) + SumLen(f, S \ {x})

CardsInPlay ==
    Len(deck) + SumLen(hands, Players) + (SumLen(piles, ColorSet) - Len(colors))

Victory == pc = "returned" /\ result.finished
Defeat == pc = "returned" /\ ~result.finished

\* an attempt of the inner loop has just been made
Attempted == pc = "try" /\ tries' = tries + 1

\* C1: in every state of a game the hint counter is in 0..7
C1_HintsInRange == InGame => hints \in 0..7

\* C2: a play that resolves to WrongPlay and leaves error tokens above 0
\* ends the player's attempts: control passes to the draw phase
C2_WrongPlayConsumesTurn ==
    [][(Attempted /\ raised' = "WrongPlayError" /\ errors' > 0)
          => (successful' /\ pc' = "draw")]_vars

\* C3 as stated: deck + hands + piles (without the sentinels) is 60 cards
C3_Conservation60 == InGame => CardsInPlay = 60

\* C3 amended: deck + hands + piles (without the sentinels) plus the cards
\* dropped by discards and wrong plays is 50 cards
C3_Conservation == InGame => CardsInPlay + removed = 50

C3_Witness ==
    /\ pc = "try" /\ removed >= 2 /\ Len(deck) < 30
    /\ \E c \in ColorSet : Len(piles[c]) > 1

\* C4: until a draw first fails, every hand holds the deal size at the end
\* of every completed player-turn
C4_HandsFull ==
    (pc = "try" /\ tries = 0 /\ ~is_last_turn)
        => \A q \in Players : Len(hands[q]) = 4

\* C5: no player-turn makes more than 20 attempts; the 'Too many tries'
\* abort is never raised
C5_NoTooManyTries == tries <= 20 /\ raised # "Too many tries!"

\* C6: the game has returned Defeat exactly when the error counter is 0
\* (so no step is taken with the counter at 0), and has returned Victory
\* exactly when the countdown is 0 with the error counter above 0
C6_DefeatVictory ==
    InGame => /\ Defeat <=> errors = 0
              /\ Victory <=> (turns_left = 0 /\ errors > 0)

C6_Witness == Defeat /\ errors = 0 /\ result.score > 0 /\ raised = "WrongPlayError"

\* C7 as stated: a Victory comes after n_players further player-turns
C7_FullRound == Victory => turns_after = n_players

\* C7 amended: after the player-turn whose draw first failed, exactly
\* n_players - 1 further player-turns are completed before Victory, the last
\* by the player just before the one whose draw failed, who does not act again
C7_RoundMinusOne ==
    /\ is_last_turn => turns_left = n_players - 1 - turns_after
    /\ Victory => /\ turns_after = n_players - 1
                  /\ exhausted_by = (p % n_players) + 1

C7_Witness == Victory /\ turns_after = 3 /\ exhausted_by # 0 /\ errors < 3

\* C8: the turn counter never exceeds 35 and 'Too many turns' is never raised
C8_TurnBound == turn <= 35 /\ raised # "Too many turns! Loop?"

C8_Witness == Victory /\ result.turns >= 20

\* C9: the error counter is in 0..3 and changes only by a decrement of one,
\* exactly when a play resolves to WrongPlay
C9_Errors ==
    /\ [](InGame => errors \in 0..3)
    /\ [][InGame =>
            /\ errors' <= errors
            /\ (errors' # errors) <=>
                   (Attempted /\ action' = "play" /\ raised' = "WrongPlayError")
            /\ (errors' # errors) => errors' = errors - 1]_vars

C9_Witness == pc = "try" /\ errors = 1 /\ raised = "WrongPlayError"

\* C10: each pile holds the sentinel and then the ranks 1..k of its own
\* color in order, for some k in 0..5
C10_PilesPrefix ==
    InGame => \A c \in ColorSet :
                 /\ Len(piles[c]) \in 1..6
                 /\ \A i \in 1..Len(piles[c]) : piles[c][i] = Card(i - 1, c)

C10_Witness ==
    /\ \E c \in ColorSet : Len(piles[c]) = 6
    /\ raised = "WrongPlayError"

\* the inner loop has just tried action a
Tried(a) ==
    pc = "try" /\ tries' = tries + 1 /\ tries' <= MaxTries /\ action' = a

\* C11: an attempt rejected with InvalidAction leaves the hint tokens, the
\* error tokens, the deck, every hand and every pile as they were
C11_InvalidActionFrame ==
    [][(Attempted /\ raised' = "InvalidActionError")
          => UNCHANGED <<hints, errors, deck, hands, piles>>]_vars

C11_Witness ==
    /\ pc = "try" /\ raised = "InvalidActionError"
    /\ action = "discard" /\ hints >= 7 /\ turn > 1

\* C12: a play that resolves to WrongPlay changes no pile, and when it takes
\* the error tokens from 1 to 0 the game ends in Defeat with the score the
\* piles had before the play
C12_WrongPlayKeepsPiles ==
    [][(Tried("play") /\ raised' = "WrongPlayError")
          => /\ piles' = piles
             /\ errors = 1 => /\ pc' = "returned"
                              /\ result'.finished = FALSE
                              /\ result'.score = score(piles)]_vars

C12_Witness ==
    Defeat /\ raised = "WrongPlayError" /\ result.score >= 2 /\ is_last_turn

\* the sum of the ranks of the cards on top of the five piles
RECURSIVE TopRanks(_)
TopRanks(S) ==
    IF S = {} THEN 0
    ELSE LET c == CHOOSE x \in S : TRUE
         IN  piles[c][Len(piles[c])].number + TopRanks(S \ {c})

\* C13: the score of every returned record, Victory or Defeat, is in 0..25
\* and is the sum of the top ranks of the piles at the end of the game
C13_Score ==
    pc = "returned" => /\ result.score \in 0..25
                       /\ result.score = TopRanks(ColorSet)

C13_Witness == Victory /\ result.score >= 10 /\ result.score = TopRanks(ColorSet)

\* the card that left the hand of the current player in this step is a 5
\* whose pile has a 4 on top
Played5On4(c) ==
    /\ c.number = 5
    /\ piles[c.color][Len(piles[c.color])].number = 4
    /\ \E i \in 1..Len(hands[p]) :
          hands[p][i] = c /\ hands'[p] = RemoveAt(hands[p], i)

\* C14: a 5 played on a 4 is appended to its pile, costs no error token and
\* ends the player's attempts (the draw follows); below 7 hint tokens it adds
\* exactly one
C14_CompletingPlay ==
    /\ [][\A c \in {hands[p][i] : i \in 1..Len(hands[p])} :
            (Tried("play") /\ Played5On4(c))
               => /\ piles' = [piles EXCEPT ![c.color] = Append(@, c)]
                  /\ errors' = errors
                  /\ successful' /\ pc' = "draw"
                  /\ hints < 7 => hints' = hints + 1]_vars
    /\ [][(pc = "draw" /\ action = "play")
            => IF Len(deck) > 0
               THEN /\ Len(deck') = Len(deck) - 1
                    /\ hands'[p] = Append(hands[p], deck[Len(deck)])
               ELSE is_last_turn']_vars

C14_Witness ==
    /\ pc = "draw" /\ action = "play" /\ raised = "CompletedPile"
    /\ hints \in 1..7
    /\ \E c \in ColorSet : Len(piles[c]) = 6

CardSet == {Deck[i] : i \in 1..Len(Deck)}
TopRank(c) == piles[c][Len(piles[c])].number

\* C15 as stated: a card is playable iff its pile shows the bogus card or
\* its rank is the top rank plus one
C15_PlayableOnSentinel ==
    InGame => \A card \in CardSet :
                 is_playable(piles, card)
                    <=> (TopRank(card.color) = 0
                           \/ card.number = TopRank(card.color) + 1)

\* C15 amended: a card is playable iff its rank is the top rank of its pile
\* plus one, the bogus card counting as rank 0
C15_PlayableNextRank ==
    InGame => \A card \in CardSet :
                 is_playable(piles, card)
                    <=> card.number = TopRank(card.color) + 1

C15_Witness ==
    /\ pc = "try"
    /\ \E i \in 1..Len(hands[p]) :
          /\ hands[p][i].number > 1
          /\ TopRank(hands[p][i].color) = 0
    /\ \E c \in ColorSet : TopRank(c) >= 2

\* C16: discard is rejected exactly at 7 hint tokens and otherwise removes the
\* top card of the hand and adds one token; hint is rejected exactly at 0
\* tokens and otherwise takes one token and changes nothing else
C16_DiscardAndHint ==
    /\ [][Tried("discard") =>
            IF hints = 7
            THEN /\ raised' = "InvalidActionError"
                 /\ UNCHANGED <<hints, hands>>
            ELSE /\ raised' = "none"
                 /\ hands'[p] = SubSeq(hands[p], 1, Len(hands[p]) - 1)
                 /\ hints' = hints + 1]_vars
    /\ [][Tried("hint") =>
            /\ (raised' = "InvalidActionError") <=> (hints = 0)
            /\ hints > 0 => /\ hints' = hints - 1
                            /\ UNCHANGED <<errors, deck, hands, piles>>]_vars

\* a player-turn has just been completed
TurnCompleted == pc = "draw" /\ pc' # "draw"

\* C17: the last-turn flag stays set; the countdown is n_players before the
\* flag is set, loses exactly one at the end of every player-turn completed
\* with the flag set, whatever the action, and changes at no other step
C17_Countdown ==
    /\ [](InGame /\ ~is_last_turn => turns_left = n_players)
    /\ [][InGame =>
            /\ is_last_turn => is_last_turn'
            /\ (TurnCompleted /\ is_last_turn') => turns_left' = turns_left - 1
            /\ ~(TurnCompleted /\ is_last_turn') => turns_left' = turns_left]_vars

C17_Witness ==
    /\ pc = "try" /\ tries = 0 /\ action = "hint"
    /\ is_last_turn /\ turns_left = 1 /\ turns_after = 2

\* C18: a player who attempts an action holds at least one card; play is
\* never rejected for an empty hand and no CardError is raised
C18_HandNeverEmpty ==
    /\ pc = "try" => Len(hands[p]) >= 1
    /\ raised # "CardError"
    /\ ~(action = "play" /\ raised = "InvalidActionError")

C18_Witness == pc = "try" /\ Len(hands[p]) = 2 /\ errors = 1 /\ is_last_turn

\* the playable cards of the current player's hand, by position
PlayableAt == {i \in 1..Len(hands[p]) : is_playable(piles, hands[p][i])}

\* C19: under 'best' a play takes exactly one card from the hand: the first
\* playable one in hand order, or the top card when none is playable, and it
\* is a WrongPlay exactly in the second case
C19_BestStrategy ==
    [][(Tried("play") /\ play_strategy = "best") =>
          /\ Len(hands'[p]) = Len(hands[p]) - 1
          /\ IF PlayableAt # {}
             THEN /\ \E i \in PlayableAt :
                        /\ \A j \in PlayableAt : i <= j
                        /\ hands'[p] = RemoveAt(hands[p], i)
                        /\ piles'[hands[p][i].color]
                              = Append(piles[hands[p][i].color], hands[p][i])
                  /\ raised' # "WrongPlayError"
             ELSE /\ hands'[p] = SubSeq(hands[p], 1, Len(hands[p]) - 1)
                  /\ raised' = "WrongPlayError"]_vars

\* a successful play under 'best' after which the hand still holds a card
\* that was playable before it: the card played came earlier in hand order
C19_Witness ==
    /\ pc = "draw" /\ action = "play" /\ play_strategy = "best"
    /\ raised = "none" /\ Len(hands[p]) = 3
    /\ \E k \in 1..3 : hands[p][k].number = 1 /\ TopRank(hands[p][k].color) = 0

\* the copies of a card among the deck and the hands
Count(card) ==
    Cardinality({i \in 1..Len(deck) : deck[i] = card})
      + Cardinality({x \in Players \X (1..5) :
                        x[2] <= Len(hands[x[1]]) /\ hands[x[1]][x[2]] = card})

\* the state in which every game starts
Fresh ==
    /\ hints = 7 /\ errors = 3
    /\ \A c \in ColorSet : piles[c] = <<Card(0, c)>>
    /\ \A q \in Players : Len(hands[q]) = 4
    /\ Len(deck) = 34
    /\ \A c \in ColorSet : \A n \in 1..5 :
          Count(Card(n, c)) = quantities[n]
    /\ turn = 1 /\ ~is_last_turn /\ turns_left = 4
    /\ p = 1 /\ tries = 0 /\ ~successful

\* C20: every call of game_loop on one Game object, the first or a later one
\* after a Victory, a Defeat or an abort, starts its game from the fresh state
C20_FreshStart ==
    [][(pc # "try" /\ pc' = "try" /\ games' = games + 1) => Fresh']_vars

\* the start of a second game; action still holds the last attempt of the
\* first game
C20_Witness ==
    games = 2 /\ pc = "try" /\ Fresh /\ action = "play" /\ rpos # 0

====
